---- MODULE Spec2Model ----
(***************************************************************************)
(* A model of ViLCo's moment-query configuration store                     *)
(* (MQ/libs/core/config.py) and of the visual-query head trainer           *)
(* (VQ/func/train_head.py).                                                *)
(*                                                                         *)
(* Python values are tagged pairs, so that values of different Python      *)
(* types can be compared:                                                  *)
(*    <<"d", f>>  a dict; f maps its keys to values                        *)
(*    <<"s", n>>  a value that is no container (int, float, bool, None)    *)
(*    <<"c", S>>  a str or list; S is the set of key names for which       *)
(*                `key in value` is true                                   *)
(*    <<"err", e>> the call raised exception e                             *)
(***************************************************************************)
EXTENDS Integers, Sequences, FiniteSets, TLC

VARIABLES
    DEFAULTS,       \* config.py:4     the module-level DEFAULTS dict
    defaults_arg,   \* config.py:199   value of `defaults` on entry of load_config
    override,       \* config.py:201   the tree yaml.load returned
    merged,         \* config.py:202   `config` after _merge(defaults, config)
    config,         \* config.py:204   what the last call returned
    last_call,      \* which function ran last, and whether it returned
    preds,          \* train_head.py:202  the argument of get_bbox_top
    pred_top,       \* train_head.py:220  what get_bbox_top returned or raised
    accumulation_step,  \* train_head.py:59   config.train.accumulation_step
    loader_len,     \* train_head.py:30   number of batches the loader yields
    epoch,          \* train_head.py:22   the epoch argument of train_epoch
    batch_idx,      \* train_head.py:30   index of the next batch of the epoch
    grad_batches,   \* batches whose backward() added to .grad since zero_grad
    calls,          \* optimizer-side calls made so far in this epoch
    last_events,    \* optimizer-side calls made by the last batch, in order
    applied,        \* grad_batches as the last optimizer.step() found it
    val_in,         \* train_head.py:168  arguments of val_performance, twice
    val_out,        \* train_head.py:199  the dict returned for each
    run,            \* the loop every rank runs: train_epoch or validate
    nranks,         \* number of processes of the run
    nbatches,       \* len(loader), the same on every rank
    pc,             \* where each rank is in its loop
    batch,          \* batch_idx of each rank
    arrived,        \* dist.barrier() calls each rank has entered
    finished        \* batches whose logging and visualization each rank has done

cfgVars == <<DEFAULTS, defaults_arg, override, merged, config, last_call>>
bboxVars == <<preds, pred_top>>
trainVars == <<accumulation_step, loader_len, epoch, batch_idx, grad_batches,
               calls, last_events, applied>>
valVars == <<val_in, val_out>>
syncVars == <<run, nranks, nbatches, pc, batch, arrived, finished>>

vars == <<cfgVars, bboxVars, trainVars, valVars, syncVars>>

-----------------------------------------------------------------------------
(* Python values *)

D(f) == <<"d", f>>
S(n) == <<"s", n>>
C(keys) == <<"c", keys>>
Err == <<"err", "TypeError">>
None == <<"s", -1>>
KeyErr == <<"err", "KeyError">>
\* no value yet (before the first call)
NoValue == <<"s", -2>>

IsDict(v) == v[1] = "d"
IsErr(v) == v[1] = "err"
Keys(v) == DOMAIN v[2]

\* a dict literal given as a set of <<key, value>> pairs
Dict(pairs) ==
    D([k \in {p[1] : p \in pairs} |-> (CHOOSE p \in pairs : p[1] = k)[2]])

\* d[k] = v on a dict d
SetItem(d, k, v) ==
    D([x \in Keys(d) \cup {k} |-> IF x = k THEN v ELSE d[2][x]])

-----------------------------------------------------------------------------
(* config.py *)

\* DEFAULTS as the module defines it (a representative subset of its keys:
\* one scalar, one list, and every section load_config touches)
DEFAULTS0 ==
    Dict({
      <<"dataset_name", C({})>>,
      <<"devices", C({})>>,
      <<"dataset", Dict({<<"input_dim", S(2304)>>, <<"num_classes", S(97)>>,
                         <<"max_seq_len", S(2304)>>, <<"feat_stride", S(16)>>})>>,
      <<"loader", Dict({<<"batch_size", S(8)>>, <<"num_workers", S(2)>>})>>,
      <<"model", Dict({<<"use_xl", S(1)>>, <<"n_head", S(4)>>})>>,
      <<"train_cfg", Dict({<<"dropout", S(0)>>, <<"head_empty_cls", C({})>>})>>,
      <<"test_cfg", Dict({<<"max_seg_num", S(1000)>>})>>,
      <<"cl_cfg", Dict({<<"memory_size", S(0)>>, <<"name", None>>})>>
    })

\* _merge with the isinstance test one level up: only the mapping-valued
\* defaults are merged or inherited
RECURSIVE _merge_sections_only(_, _)
_merge_sections_only(src, dst) ==
    IF dst[1] = "d" THEN
        LET secs == {k \in Keys(src) : IsDict(src[2][k])}
            both == secs \cap Keys(dst)
            sub  == [k \in both |-> _merge_sections_only(src[2][k], dst[2][k])]
        IN  IF \E k \in both : IsErr(sub[k]) THEN Err
            ELSE D([k \in Keys(dst) \cup secs |->
                        IF k \in both THEN sub[k]
                        ELSE IF k \in Keys(dst) THEN dst[2][k]
                        ELSE src[2][k]])
    ELSE IF Keys(src) = {} THEN dst ELSE Err

\* _merge(src, dst): the value of dst afterwards, or Err when it raises.
\* src is a dict.  `k in dst` raises on a non-container; on a str or list it
\* is a substring or element test, and dst[k] (read or write) then raises.
RECURSIVE _merge(_, _)
_merge(src, dst) ==
    IF dst[1] = "d" THEN
        LET both == Keys(src) \cap Keys(dst)
            sub  == [k \in both |->
                        IF IsDict(src[2][k]) THEN _merge(src[2][k], dst[2][k])
                        ELSE dst[2][k]]
        IN  IF \E k \in both : IsErr(sub[k]) THEN Err
            ELSE D([k \in Keys(dst) \cup Keys(src) |->
                        IF k \in both THEN sub[k]
                        ELSE IF k \in Keys(dst) THEN dst[2][k]
                        ELSE src[2][k]])
    ELSE IF dst[1] = "c" THEN
        IF \A k \in Keys(src) : k \in dst[2] /\ ~IsDict(src[2][k])
        THEN dst ELSE Err
    ELSE
        IF Keys(src) = {} THEN dst ELSE Err

\* the top-level keys at which _merge stored the very object held by src
\* (line 183, dst[k] = v): a later write through dst[k] writes src[k] too
Aliased(src, dst) ==
    IF IsDict(dst) THEN {k \in Keys(src) \ Keys(dst) : IsDict(src[2][k])}
    ELSE {}

\* d[k] read from a value d, or the exception Python raises
GetItem(d, k) ==
    IF IsDict(d) THEN (IF k \in Keys(d) THEN d[2][k] ELSE KeyErr) ELSE Err

\* lines 191-196 in order: <<key written in config["model"], path read>>
DerivedFields ==
    << <<"input_dim", <<"dataset", "input_dim">> >>,
       <<"num_classes", <<"dataset", "num_classes">> >>,
       <<"max_seq_len", <<"dataset", "max_seq_len">> >>,
       <<"train_cfg", <<"train_cfg">> >>,
       <<"test_cfg", <<"test_cfg">> >>,
       <<"cl_cfg", <<"cl_cfg">> >> >>

\* the right-hand side of an assignment of _update_config
ReadPath(cfg, path) ==
    LET top == GetItem(cfg, path[1])
    IN  IF Len(path) = 1 \/ IsErr(top) THEN top ELSE GetItem(top, path[2])

\* config["model"].setdefault(key, value) in place of the assignment
WriteModel_setdefault(cfg, key, value) ==
    LET m == GetItem(cfg, "model")
    IN  IF IsErr(m) THEN m
        ELSE IF ~IsDict(m) THEN Err
        ELSE IF key \in Keys(m) THEN cfg
        ELSE SetItem(cfg, "model", SetItem(m, key, value))

\* config["model"][key] = value: config afterwards, or the exception
WriteModel(cfg, key, value) ==
    LET m == GetItem(cfg, "model")
    IN  IF IsErr(m) THEN m
        ELSE IF ~IsDict(m) THEN Err
        ELSE SetItem(cfg, "model", SetItem(m, key, value))

\* _update_config(config) from its i-th assignment on: config as the
\* assignments that ran left it, and the exception that stopped them, if any
RECURSIVE UpdateFrom(_, _)
UpdateFrom(cfg, i) ==
    IF i > Len(DerivedFields) THEN [config |-> cfg, raised |-> NoValue]
    ELSE
        LET value == ReadPath(cfg, DerivedFields[i][2])
            next  == IF IsErr(value) THEN value
                     ELSE WriteModel(cfg, DerivedFields[i][1], value)
        IN  IF IsErr(next) THEN [config |-> cfg, raised |-> next]
            ELSE UpdateFrom(next, i + 1)

_update_config(cfg) == UpdateFrom(cfg, 1)

\* What a configuration file may say about a section: nothing, or one of a
\* few values of each Python type that _merge tells apart.
DatasetMenu ==
    { {}, {<<"dataset", Dict({<<"input_dim", S(5)>>})>>},
      {<<"dataset", C({"input_dim", "num_classes", "max_seq_len", "feat_stride"})>>} }

ModelMenu ==
    { {}, {<<"model", S(3)>>}, {<<"model", Dict({<<"input_dim", S(11)>>})>>},
      {<<"model", Dict({<<"train_cfg", Dict({<<"dropout", S(1)>>})>>})>>} }

TrainCfgMenu ==
    { {}, {<<"train_cfg", Dict({<<"dropout", S(1)>>})>>} }

OtherMenu ==
    { {}, {<<"loader", S(4)>>}, {<<"loader", C({"batch_size", "num_workers"})>>},
      {<<"dataset_name", Dict({<<"id", S(1)>>})>>, <<"extra", S(7)>>} }

\* the trees yaml.load can return: a mapping, or None for an empty file
Overrides ==
    {None} \cup
    { Dict(a \cup b \cup c \cup d) :
        a \in DatasetMenu, b \in ModelMenu, c \in TrainCfgMenu, d \in OtherMenu }

InitConfig ==
    /\ DEFAULTS = DEFAULTS0
    /\ defaults_arg = NoValue
    /\ override = NoValue
    /\ merged = NoValue
    /\ config = NoValue
    /\ last_call = "none"

\* load_default_config()
load_default_config ==
    /\ config' = DEFAULTS
    /\ last_call' = "load_default_config"
    /\ UNCHANGED <<DEFAULTS, defaults_arg, override, merged>>
    /\ UNCHANGED <<bboxVars, trainVars, valVars, syncVars>>

\* load_config(config_file), whose file parses to the tree ov
load_config(ov) ==
    LET mg  == _merge(DEFAULTS, ov)
        upd == IF IsErr(mg) THEN [config |-> mg, raised |-> mg]
               ELSE _update_config(mg)
        out == IF IsErr(upd.raised) THEN upd.raised ELSE upd.config
    IN  /\ defaults_arg' = DEFAULTS
        /\ override' = ov
        /\ merged' = mg
        /\ config' = out
        /\ last_call' = IF IsErr(out) THEN "load_config raised"
                        ELSE "load_config returned"
        \* _update_config writes config["model"], which is DEFAULTS["model"]
        \* itself when _merge took it from the defaults
        /\ DEFAULTS' = IF ~IsErr(mg) /\ "model" \in Aliased(DEFAULTS, ov)
                       THEN SetItem(DEFAULTS, "model", upd.config[2]["model"])
                       ELSE DEFAULTS
        /\ UNCHANGED <<bboxVars, trainVars, valVars, syncVars>>

NextConfig ==
    \/ load_default_config
    \/ \E ov \in Overrides : load_config(ov)

-----------------------------------------------------------------------------
(* Tensors: a shape and the elements at its (0-based) indices.  An         *)
(* operation that raises yields [error |-> its exception].                 *)

Tensor(shape, data) == [shape |-> shape, data |-> data]
Raise(e) == [error |-> e]
IsRaised(x) == "error" \in DOMAIN x
NoTensor == [none |-> TRUE]

RECURSIVE Indices(_)
Indices(shape) ==
    IF Len(shape) = 0 THEN {<< >>}
    ELSE {<<i>> \o r : i \in 0..(Head(shape) - 1), r \in Indices(Tail(shape))}

\* einops.rearrange(x, 'b t ... -> (b t) ...') on a tensor of ndim axes
MergeFirstTwo(x, ndim) ==
    IF Len(x.shape) # ndim THEN Raise("EinopsError")
    ELSE
        LET t == x.shape[2]
            shape == <<x.shape[1] * t>> \o SubSeq(x.shape, 3, ndim)
        IN  Tensor(shape,
                   [idx \in Indices(shape) |->
                       x.data[<<idx[1] \div t, idx[1] % t>> \o Tail(idx)]])

\* einops.rearrange(x, '(b t) ... -> b t ...', b=b, t=t) on ndim axes
SplitFirst(x, b, t, ndim) ==
    IF IsRaised(x) THEN x
    ELSE IF Len(x.shape) # ndim \/ x.shape[1] # b * t THEN Raise("EinopsError")
    ELSE
        LET shape == <<b, t>> \o Tail(x.shape)
        IN  Tensor(shape,
                   [idx \in Indices(shape) |->
                       x.data[<<idx[1] * t + idx[2]>> \o SubSeq(idx, 3, Len(idx))]])

SetMax(vals) == CHOOSE v \in vals : \A w \in vals : w <= v
SetMin(vals) == CHOOSE v \in vals : \A w \in vals : v <= w

\* torch.max(x, dim=-1) on [M, N]: the maxima and the first index of each
TorchMax(x) ==
    LET M == x.shape[1]
        N == x.shape[2]
        best(i) == SetMax({x.data[<<i, n>>] : n \in 0..(N - 1)})
    IN  [values  |-> Tensor(<<M>>, [idx \in Indices(<<M>>) |-> best(idx[1])]),
         indices |-> Tensor(<<M>>, [idx \in Indices(<<M>>) |->
                        SetMin({n \in 0..(N - 1) : x.data[<<idx[1], n>>] = best(idx[1])})])]

\* number of coordinates of a box: repeat(1, 1, 4)
BoxDim == 4

\* top_idx.unsqueeze(-1).unsqueeze(-1).repeat(1, 1, 4): [M] -> [M, 1, 4]
RepeatIndex(ix) ==
    LET shape == <<ix.shape[1], 1, BoxDim>>
    IN  Tensor(shape, [idx \in Indices(shape) |-> ix.data[<<idx[1]>>]])

\* torch.gather(x, dim=1, index) on three axes
Gather(x, index) ==
    Tensor(index.shape,
           [idx \in Indices(index.shape) |-> x.data[<<idx[1], index.data[idx], idx[3]>>]])

\* x.squeeze(): every axis of size 1 goes
Squeeze(x) ==
    LET kept == {p \in 1..Len(x.shape) : x.shape[p] # 1}
        rank(p) == Cardinality({q \in kept : q <= p})
        shape == [r \in 1..Cardinality(kept) |->
                    x.shape[CHOOSE p \in kept : rank(p) = r]]
    IN  Tensor(shape,
               [idx \in Indices(shape) |->
                   x.data[[p \in 1..Len(x.shape) |->
                             IF p \in kept THEN idx[rank(p)] ELSE 0]]])

\* get_bbox_top(preds): the dict it returns, or what it raises
get_bbox_top(p) ==
    LET b == p.prob.shape[1]
        t == p.prob.shape[2]
        prob2 == MergeFirstTwo(p.prob, 3)
        bbox2 == MergeFirstTwo(p.bbox, 4)
        top   == TorchMax(prob2)
        bbox1 == Squeeze(Gather(bbox2, RepeatIndex(top.indices)))
        prob  == SplitFirst(top.values, b, t, 1)
        bbox  == SplitFirst(bbox1, b, t, 2)
    IN  IF IsRaised(bbox) THEN bbox ELSE [bbox |-> bbox, prob |-> prob]

\* bounds of the inputs
MaxB == 2
MaxT == 3
MaxN == 2
MaxProb == 1

\* the boxes of a [B, T, N, 4] tensor, all different: coordinate c of
\* candidate number j is 4j + c, the candidates numbered up or down
Boxes(B, T, N, down) ==
    Tensor(<<B, T, N, BoxDim>>,
           [idx \in Indices(<<B, T, N, BoxDim>>) |->
               LET j == (idx[1] * T + idx[2]) * N + idx[3]
               IN  BoxDim * (IF down THEN B * T * N - 1 - j ELSE j) + idx[4]])

\* the predictions of shape [B, T, N] / [B, T, N, 4]
Preds(B, T, N) ==
    { [prob |-> Tensor(<<B, T, N>>, d), bbox |-> Boxes(B, T, N, down)] :
        d \in [Indices(<<B, T, N>>) -> 0..MaxProb], down \in BOOLEAN }

IdleBBox == preds = NoTensor /\ pred_top = NoTensor

InitBBox ==
    /\ \E B \in 1..MaxB, T \in 1..MaxT, N \in 1..MaxN : preds \in Preds(B, T, N)
    /\ pred_top = NoTensor

\* the call preds_top = get_bbox_top(preds) of train_epoch and validate
call_get_bbox_top ==
    /\ pred_top = NoTensor
    /\ pred_top' = get_bbox_top(preds)
    /\ UNCHANGED preds
    /\ UNCHANGED <<cfgVars, trainVars, valVars, syncVars>>

NextBBox == call_get_bbox_top

-----------------------------------------------------------------------------
(* train_epoch: the optimizer side of its loop *)

\* bounds of the runs
MaxAccum == 3
MaxLen == 5
MaxEpochs == 3

NoCalls == [clip |-> 0, step |-> 0, zero_grad |-> 0, sched |-> 0]

IdleTrain ==
    /\ accumulation_step = 1 /\ loader_len = 0 /\ epoch = 0 /\ batch_idx = 0
    /\ grad_batches = 0 /\ calls = NoCalls /\ last_events = << >> /\ applied = 0

\* the first call of train_epoch, on an optimizer whose gradients are zero
InitTrain ==
    /\ accumulation_step \in 1..MaxAccum
    /\ loader_len \in 1..MaxLen
    /\ epoch = 0 /\ batch_idx = 0
    /\ grad_batches = 0 /\ calls = NoCalls /\ last_events = << >> /\ applied = 0

\* the test that lets batch i step with i % n == 0 (steps on the first batch)
IsStepBatch_first(i, n) == i % n = 0

\* line 64: (batch_idx+1) % config.train.accumulation_step == 0
IsStepBatch(i, n) == (i + 1) % n = 0

\* one iteration of the loop of train_epoch (lines 30-111)
train_batch ==
    /\ batch_idx < loader_len
    /\ batch_idx' = batch_idx + 1
    /\ IF IsStepBatch(batch_idx, accumulation_step)
       THEN /\ last_events' = <<"backward", "clip_grad_norm_", "optimizer.step",
                                "optimizer.zero_grad", "schedular.step">>
            /\ applied' = grad_batches + 1
            /\ grad_batches' = 0
            /\ calls' = [clip |-> calls.clip + 1, step |-> calls.step + 1,
                         zero_grad |-> calls.zero_grad + 1, sched |-> calls.sched + 1]
       ELSE /\ last_events' = <<"backward">>
            /\ grad_batches' = grad_batches + 1
            /\ UNCHANGED <<applied, calls>>
    /\ UNCHANGED <<accumulation_step, loader_len, epoch>>
    /\ UNCHANGED <<cfgVars, bboxVars, valVars, syncVars>>

\* train_epoch returns when the loader is exhausted and is called again for
\* the next epoch with the same optimizer; it never calls zero_grad first
next_epoch ==
    /\ batch_idx = loader_len
    /\ epoch + 1 < MaxEpochs
    /\ epoch' = epoch + 1
    /\ batch_idx' = 0
    /\ calls' = NoCalls
    /\ last_events' = << >>
    /\ UNCHANGED <<accumulation_step, loader_len, grad_batches, applied>>
    /\ UNCHANGED <<cfgVars, bboxVars, valVars, syncVars>>

NextTrain == train_batch \/ next_epoch

-----------------------------------------------------------------------------
(* val_performance.  Logits are in tenths, probabilities and losses in     *)
(* thousandths; a mean is the pair <<sum, count>>, <<0, 0>> on no element. *)

\* bound of the inputs: elements of pred_prob (b * t)
MaxElems == 2

Logits == {-10, 2, 5, 7, 10}

\* torch.sigmoid(x), in thousandths
Sigmoid(x) ==
    CASE x = -10 -> 269 [] x = 2 -> 550 [] x = 5 -> 622 [] x = 7 -> 668 [] x = 10 -> 731

\* log(1 + exp(x)), in thousandths
Softplus(x) ==
    CASE x = -10 -> 313 [] x = 2 -> 798 [] x = 5 -> 974 [] x = 7 -> 1103 [] x = 10 -> 1313

\* nn.BCEWithLogitsLoss(reduce=False) on one element: softplus(x) - x * y
BCEWithLogits(x, y) == Softplus(x) - 100 * x * y

RECURSIVE SumSeq(_)
SumSeq(q) == IF Len(q) = 0 THEN 0 ELSE Head(q) + SumSeq(Tail(q))

\* x.mean()
Mean(q) == <<SumSeq(q), Len(q)>>

\* x[mask.bool()]
Masked(q, mask) ==
    LET RECURSIVE Pick(_)
        Pick(i) == IF i > Len(q) THEN << >>
                   ELSE (IF mask[i] # 0 THEN <<q[i]>> ELSE << >>) \o Pick(i + 1)
    IN  Pick(1)

\* lines 184-187, over pred_prob and gt_prob as reshaped (before_query plays
\* no part): ((torch.sigmoid(pred_prob) > theta) == gt_prob.bool()).float().mean()
Accuracy(pred, gt, theta) ==
    Mean([i \in 1..Len(pred) |-> IF (Sigmoid(pred[i]) > theta) = (gt[i] # 0) THEN 1 ELSE 0])

\* val_performance(config, pred_prob, gts), flattened
val_performance(in) ==
    LET pred == Masked(in.pred_prob, in.before_query)
        gt   == Masked(in.clip_with_bbox, in.before_query)
        weight_ == [i \in 1..Len(gt) |-> in.prob_bce_weight[gt[i] + 1]]
    IN  [loss_prob |-> Mean([i \in 1..Len(gt) |-> BCEWithLogits(pred[i], gt[i]) * weight_[i]]),
         prob_accuracy      |-> Accuracy(in.pred_prob, in.clip_with_bbox, 500),
         prob_accuracy_0_6  |-> Accuracy(in.pred_prob, in.clip_with_bbox, 600),
         prob_accuracy_0_7  |-> Accuracy(in.pred_prob, in.clip_with_bbox, 700),
         prob_accuracy_0_65 |-> Accuracy(in.pred_prob, in.clip_with_bbox, 650)]

\* the arguments with n elements, at least one of them before the query
\* (on none the loss is the mean of nothing)
ValInputs(n) ==
    { x \in [pred_prob : [1..n -> Logits], clip_with_bbox : [1..n -> 0..1],
             before_query : [1..n -> 0..1], prob_bce_weight : {<<1, 1>>, <<1, 2>>}] :
        \E i \in 1..n : x.before_query[i] = 1 }

\* two arguments that differ at most where before_query is 0
SameWhereValid(x, y) ==
    /\ Len(x.pred_prob) = Len(y.pred_prob)
    /\ x.before_query = y.before_query
    /\ x.prob_bce_weight = y.prob_bce_weight
    /\ \A i \in 1..Len(x.pred_prob) :
          x.before_query[i] # 0 =>
              /\ x.pred_prob[i] = y.pred_prob[i]
              /\ x.clip_with_bbox[i] = y.clip_with_bbox[i]

IdleVal == val_in = << >> /\ val_out = << >>

InitVal ==
    /\ \E n \in 1..MaxElems : \E x \in ValInputs(n) :
          \E y \in {z \in ValInputs(n) : SameWhereValid(x, z)} : val_in = <<x, y>>
    /\ val_out = << >>

\* the call results = val_performance(config, refine_prob, sample) of
\* validate, on each of the two arguments
call_val_performance ==
    /\ val_out = << >>
    /\ val_out' = <<val_performance(val_in[1]), val_performance(val_in[2])>>
    /\ UNCHANGED val_in
    /\ UNCHANGED <<cfgVars, bboxVars, trainVars, syncVars>>

NextVal == call_val_performance

-----------------------------------------------------------------------------
(* The loops of train_epoch and validate in a multi-process run.  A rank   *)
(* is at "loop" (about to fetch a batch), in "body" (the batch fetched:    *)
(* forward pass, loss, metrics), at "barrier" (about to call               *)
(* dist.barrier()), "waiting" in it, at "vis" (validate's visualization,   *)
(* after its barrier) or "returned".                                       *)

\* bounds of the runs
MaxRanks == 3
MaxBatches == 2

Ranks == 0..(nranks - 1)

IdleSync ==
    /\ run = "none" /\ nranks = 0 /\ nbatches = 0
    /\ pc = << >> /\ batch = << >> /\ arrived = << >> /\ finished = << >>

InitSync ==
    /\ run \in {"train_epoch", "validate"}
    /\ nranks \in 2..MaxRanks
    /\ nbatches \in 1..MaxBatches
    /\ pc = [r \in Ranks |-> "loop"]
    /\ batch = [r \in Ranks |-> 0]
    /\ arrived = [r \in Ranks |-> 0]
    /\ finished = [r \in Ranks |-> 0]

\* for batch_idx, sample in enumerate(loader): the next batch
fetch(r) ==
    /\ pc[r] = "loop" /\ batch[r] < nbatches
    /\ pc' = [pc EXCEPT ![r] = "body"]
    /\ UNCHANGED <<run, nranks, nbatches, batch, arrived, finished>>
    /\ UNCHANGED <<cfgVars, bboxVars, trainVars, valVars>>

\* the loader is exhausted
return(r) ==
    /\ pc[r] = "loop" /\ batch[r] = nbatches
    /\ pc' = [pc EXCEPT ![r] = "returned"]
    /\ UNCHANGED <<run, nranks, nbatches, batch, arrived, finished>>
    /\ UNCHANGED <<cfgVars, bboxVars, trainVars, valVars>>

\* train_epoch lines 31-107: the step, then the log line, and on rank 0
\* the visualization and the wandb dict, all before the barrier
train_body(r) ==
    /\ run = "train_epoch" /\ pc[r] = "body"
    /\ pc' = [pc EXCEPT ![r] = "barrier"]
    /\ finished' = [finished EXCEPT ![r] = @ + 1]
    /\ UNCHANGED <<run, nranks, nbatches, batch, arrived>>
    /\ UNCHANGED <<cfgVars, bboxVars, trainVars, valVars>>

\* validate lines 122-147: the forward pass and the metrics
validate_body(r) ==
    /\ run = "validate" /\ pc[r] = "body"
    /\ pc' = [pc EXCEPT ![r] = "barrier"]
    /\ UNCHANGED <<run, nranks, nbatches, batch, arrived, finished>>
    /\ UNCHANGED <<cfgVars, bboxVars, trainVars, valVars>>

\* dist.barrier() is entered
barrier_enter(r) ==
    /\ pc[r] = "barrier"
    /\ pc' = [pc EXCEPT ![r] = "waiting"]
    /\ arrived' = [arrived EXCEPT ![r] = @ + 1]
    /\ UNCHANGED <<run, nranks, nbatches, batch, finished>>
    /\ UNCHANGED <<cfgVars, bboxVars, trainVars, valVars>>

\* dist.barrier() returns once every rank has entered it.  In train_epoch
\* the iteration ends there; in validate rank 0 goes on to visualize
\* (line 151) and the other ranks have nothing left to do for the batch
barrier_leave(r) ==
    /\ pc[r] = "waiting"
    /\ \A q \in Ranks : arrived[q] >= arrived[r]
    /\ IF run = "validate" /\ r = 0
       THEN /\ pc' = [pc EXCEPT ![r] = "vis"]
            /\ UNCHANGED <<batch, finished>>
       ELSE /\ pc' = [pc EXCEPT ![r] = "loop"]
            /\ batch' = [batch EXCEPT ![r] = @ + 1]
            /\ finished' = IF run = "validate" THEN [finished EXCEPT ![r] = @ + 1]
                           ELSE finished
    /\ UNCHANGED <<run, nranks, nbatches, arrived>>
    /\ UNCHANGED <<cfgVars, bboxVars, trainVars, valVars>>

\* validate lines 151-156: rank 0 visualizes the batch
validate_vis(r) ==
    /\ pc[r] = "vis"
    /\ pc' = [pc EXCEPT ![r] = "loop"]
    /\ batch' = [batch EXCEPT ![r] = @ + 1]
    /\ finished' = [finished EXCEPT ![r] = @ + 1]
    /\ UNCHANGED <<run, nranks, nbatches, arrived>>
    /\ UNCHANGED <<cfgVars, bboxVars, trainVars, valVars>>

NextSync ==
    \/ \E r \in Ranks : fetch(r)
    \/ \E r \in Ranks : return(r)
    \/ \E r \in Ranks : train_body(r)
    \/ \E r \in Ranks : validate_body(r)
    \/ \E r \in Ranks : barrier_enter(r)
    \/ \E r \in Ranks : barrier_leave(r)
    \/ \E r \in Ranks : validate_vis(r)

-----------------------------------------------------------------------------
(* Specifications: one per component, the other components idle *)

IdleConfig ==
    /\ DEFAULTS = DEFAULTS0
    /\ defaults_arg = NoValue /\ override = NoValue /\ merged = NoValue
    /\ config = NoValue /\ last_call = "none"

StartConfig == InitConfig /\ IdleBBox /\ IdleTrain /\ IdleVal /\ IdleSync
StartBBox == IdleConfig /\ InitBBox /\ IdleTrain /\ IdleVal /\ IdleSync
StartTrain == IdleConfig /\ IdleBBox /\ InitTrain /\ IdleVal /\ IdleSync
StartVal == IdleConfig /\ IdleBBox /\ IdleTrain /\ InitVal /\ IdleSync
StartSync == IdleConfig /\ IdleBBox /\ IdleTrain /\ IdleVal /\ InitSync

SpecConfig == StartConfig /\ [][NextConfig]_vars
SpecBBox == StartBBox /\ [][NextBBox]_vars
SpecTrain == StartTrain /\ [][NextTrain]_vars
SpecVal == StartVal /\ [][NextVal]_vars
SpecSync == StartSync /\ [][NextSync]_vars

\* the program: any one component at work
Init == StartConfig \/ StartBBox \/ StartTrain \/ StartVal \/ StartSync

Next ==
    \/ IdleBBox /\ IdleTrain /\ IdleVal /\ IdleSync /\ NextConfig
    \/ ~IdleBBox /\ NextBBox
    \/ ~IdleTrain /\ NextTrain
    \/ ~IdleVal /\ NextVal
    \/ ~IdleSync /\ NextSync

Spec == Init /\ [][Next]_vars

-----------------------------------------------------------------------------
(* Properties of config.py *)

Returned == last_call = "load_config returned"
Called == last_call \in {"load_config returned", "load_config raised"}

\* C1: whenever load_config returns, the model section of the returned
\* configuration holds the dataset section's input_dim, num_classes and
\* max_seq_len and the top-level train_cfg, test_cfg and cl_cfg, whatever
\* the override said about any of them.
C1_DerivedMirrorDataset ==
    Returned =>
        /\ ReadPath(config, <<"model", "input_dim">>) = ReadPath(config, <<"dataset", "input_dim">>)
        /\ ReadPath(config, <<"model", "num_classes">>) = ReadPath(config, <<"dataset", "num_classes">>)
        /\ ReadPath(config, <<"model", "max_seq_len">>) = ReadPath(config, <<"dataset", "max_seq_len">>)
        /\ ~IsErr(ReadPath(config, <<"model", "input_dim">>))
        /\ ReadPath(config, <<"model", "train_cfg">>) = config[2]["train_cfg"]
        /\ ReadPath(config, <<"model", "test_cfg">>) = config[2]["test_cfg"]
        /\ ReadPath(config, <<"model", "cl_cfg">>) = config[2]["cl_cfg"]

\* a call returned whose override set model.input_dim to 11 and
\* dataset.input_dim to 5: the returned model.input_dim is 5
C1_Witness ==
    /\ Returned
    /\ ReadPath(override, <<"model", "input_dim">>) = S(11)
    /\ ReadPath(override, <<"dataset", "input_dim">>) = S(5)
    /\ ReadPath(config, <<"model", "input_dim">>) = S(5)

\* the reference merge: the override's value where the override defines the
\* path, the default's elsewhere; two mappings merge key by key, anything
\* else in the override replaces the default wholesale
RECURSIVE RefMerge(_, _)
RefMerge(def, ov) ==
    IF IsDict(def) /\ IsDict(ov) THEN
        D([k \in Keys(def) \cup Keys(ov) |->
            IF k \notin Keys(ov) THEN def[2][k]
            ELSE IF k \notin Keys(def) THEN ov[2][k]
            ELSE RefMerge(def[2][k], ov[2][k])])
    ELSE ov

\* C2: for every override mapping, what _merge leaves in `config` is the
\* reference merge of the override onto the defaults.
C2_MergeIsReferenceMerge ==
    (Called /\ IsDict(override)) => merged = RefMerge(defaults_arg, override)

\* C3: load_config with an empty override mapping returns, and the merge
\* leaves a tree with exactly the keys and values of the defaults tree.
C3_EmptyOverrideKeepsDefaults ==
    (Called /\ override = Dict({})) =>
        /\ Returned
        /\ merged = defaults_arg

\* load_config ran on an empty override mapping after an earlier call had
\* run with another override
C3_Witness ==
    /\ Returned
    /\ override = Dict({})
    /\ "input_dim" \in Keys(defaults_arg[2]["model"])

\* C10: DEFAULTS holds what the module wrote in it, and load_default_config
\* returns that tree.
C10_DefaultsUnchanged ==
    /\ DEFAULTS = DEFAULTS0
    /\ last_call = "load_default_config" => config = DEFAULTS0

-----------------------------------------------------------------------------
(* Properties of get_bbox_top *)

BBoxCalled == pred_top # NoTensor

\* the cell (b, t) of the result holds the largest of the N probabilities of
\* the cell and the box of a candidate that has it
SelectsTop(b, t) ==
    LET N == preds.prob.shape[3]
        best == SetMax({preds.prob.data[<<b, t, n>>] : n \in 0..(N - 1)})
    IN  /\ pred_top.prob.data[<<b, t>>] = best
        /\ \E n \in 0..(N - 1) :
              /\ preds.prob.data[<<b, t, n>>] = best
              /\ \A c \in 0..(BoxDim - 1) :
                    pred_top.bbox.data[<<b, t, c>>] = preds.bbox.data[<<b, t, n, c>>]

\* C4: for every input, get_bbox_top returns and every cell (b, t) of its
\* result holds the maximum probability of the cell and the box of the
\* candidate with that probability.
C4_SelectsArgmax ==
    BBoxCalled =>
        /\ ~IsRaised(pred_top)
        /\ \A b \in 0..(preds.prob.shape[1] - 1), t \in 0..(preds.prob.shape[2] - 1) :
              SelectsTop(b, t)

\* whenever get_bbox_top returns, its result is the selection C4 describes
SelectsArgmaxWhenReturned ==
    (BBoxCalled /\ ~IsRaised(pred_top)) =>
        \A b \in 0..(preds.prob.shape[1] - 1), t \in 0..(preds.prob.shape[2] - 1) :
            SelectsTop(b, t)

\* C5: for every input [B,T,N] / [B,T,N,4] with B, T, N >= 1, get_bbox_top
\* returns without error, prob of shape [B,T] and bbox of shape [B,T,4].
C5_OutputShapes ==
    BBoxCalled =>
        /\ ~IsRaised(pred_top)
        /\ pred_top.prob.shape = <<preds.prob.shape[1], preds.prob.shape[2]>>
        /\ pred_top.bbox.shape = <<preds.prob.shape[1], preds.prob.shape[2], BoxDim>>

\* get_bbox_top raises exactly on the inputs with B * T = 1
RaisesOnSingleCell ==
    BBoxCalled => (IsRaised(pred_top) <=> preds.prob.shape[1] * preds.prob.shape[2] = 1)

-----------------------------------------------------------------------------
(* Properties of train_epoch *)

\* C6: after k batches of an epoch exactly k \div N optimizer steps have
\* been made, with as many clips, zero_grads and scheduler steps, and a
\* batch makes them, in the order clip, step, zero_grad, scheduler step,
\* exactly when it is the N-th since the last that did.
C6_StepEveryNthBatch ==
    /\ calls.step = batch_idx \div accumulation_step
    /\ calls.clip = calls.step
    /\ calls.zero_grad = calls.step
    /\ calls.sched = calls.step
    /\ batch_idx > 0 =>
          last_events = IF batch_idx % accumulation_step = 0
                        THEN <<"backward", "clip_grad_norm_", "optimizer.step",
                               "optimizer.zero_grad", "schedular.step">>
                        ELSE <<"backward">>

\* the second step of an epoch that accumulates over more than one batch
C6_Witness ==
    /\ accumulation_step >= 2
    /\ batch_idx = 2 * accumulation_step
    /\ calls.step = 2
    /\ Len(last_events) > 1

\* C9: every optimizer.step applies the gradients of exactly N batches.
C9_StepAppliesNBatches ==
    calls.step > 0 => applied = accumulation_step

\* within the first epoch every step does apply exactly N batches
FirstEpochStepsApplyN ==
    (epoch = 0 /\ calls.step > 0) => applied = accumulation_step

-----------------------------------------------------------------------------
(* Properties of val_performance *)

\* C7: two calls whose arguments differ only at timesteps that before_query
\* masks out return the same loss and the same four accuracies.
C7_MaskedOutIrrelevant ==
    val_out # << >> => val_out[1] = val_out[2]

\* the loss is taken over the masked-in timesteps only
LossIgnoresMaskedOut ==
    val_out # << >> => val_out[1].loss_prob = val_out[2].loss_prob

-----------------------------------------------------------------------------
(* Properties of the barrier *)

\* batches a rank has begun
Begun(r) == batch[r] + (IF pc[r] \in {"body", "barrier", "waiting", "vis"} THEN 1 ELSE 0)

\* no rank has begun a batch before every rank finished the logging and
\* visualization of the batch before it
Aligned == \A r \in Ranks, q \in Ranks : Begun(r) <= finished[q] + 1

\* C8: in train_epoch and in validate, no process begins batch i+1 before
\* every process has finished its logging and visualization for batch i.
C8_BarrierKeepsAligned ==
    run \in {"train_epoch", "validate"} => Aligned

\* the barrier of train_epoch does keep the ranks aligned
TrainEpochAligned ==
    run = "train_epoch" => Aligned

====
